---- MODULE Spec2Model ----
(***************************************************************************)
(* A model of src/hive/__init__.py: the coroutine client AioHive           *)
(* (execute, fetch, iter) and the blocking wrapper SyncedHive.             *)
(*                                                                         *)
(* Every logical call owns one cursor.  A remote step (cursor, execute,    *)
(* getSchema, fetch, close) is a coroutine: CALLING it only creates the    *)
(* coroutine object, DRIVING it (yield from / run_until_complete) issues   *)
(* the remote operation.  The model keeps the two apart: closeCalls counts *)
(* the calls cur.close(), closes counts the close operations carried out.  *)
(*                                                                         *)
(* The rows of a remote result are the numbers 1..N in server order.       *)
(***************************************************************************)
EXTENDS Integers, Sequences, FiniteSets, TLC

\* ------------------------------------------------------------- bounds
MaxRows == 5           \* largest remote result (N)
MaxChunk == 2          \* largest chunk_size
MaxEmptyPages == 1     \* empty/absent pages the server sends before the end
MaxFetchErrors == 1    \* page fetches that raise, per cursor
MaxProps == 2          \* <property> elements of a configuration resource
MaxFacadeRows == 2     \* largest remote result when two facade calls are made
MaxTwoRows == 2        \* largest remote result of two interleaved sequences
MaxFreeRows == 3       \* largest remote result of a sequence driven out of order

Calls == {1, 2}

Kinds == {"execute", "fetch", "iter", "synced_iter"}

\* the answers of cur.getSchema(): one dict per column
SchemaInfos ==
    {<<[columnName |-> "a", type |-> "int"]>>,
     <<[columnName |-> "a", type |-> "int"],
       [columnName |-> "b", type |-> "string"]>>}

\* faulty variant: the columns are labelled with another key of the schema
ColumnTypes(schema) == [i \in 1..Len(schema) |-> schema[i].type]

\* pd.Index([nfo['columnName'] for nfo in schema])
ColumnNames(schema) == [i \in 1..Len(schema) |-> schema[i].columnName]

VARIABLES
    pc,          \* position of the call's coroutine
    kind,        \* which operation the call is
    chunk_size,  \* the call's chunk_size argument
    nrows,       \* N: number of rows of the query's remote result
    err,         \* the exception in flight inside the coroutine
    outcome,     \* what the caller of the coroutine received
    cur,         \* the call's cursor (client object and remote operation)
    columns,     \* columns = pd.Index(...) of the call
    local,       \* class local: offset, empty
    gen,         \* the generator closing()
    elems,       \* the coroutines to_frame(chunk) the generator has yielded
    frames,      \* the DataFrames constructed so far, in construction order
    fgen,        \* the generator SyncedHive.iter
    yielded,     \* the DataFrames SyncedHive.iter yielded to its caller
    raised,      \* the error a consumer of the sequence received from a pull
    hold,        \* how many undriven elements the async consumer may hold
    client,      \* AioHive.__init__: its arguments, its position, self.cli
    facade       \* SyncedHive: self.loop, what it runs, the method the caller is in

vars == <<pc, kind, chunk_size, nrows, err, outcome, cur, columns, local,
          gen, elems, frames, fgen, yielded, raised, hold, client,
          facade>>

\* ------------------------------------------------------------- values
Min(a, b) == IF a < b THEN a ELSE b

None == [tag |-> "None", rows |-> <<>>]

List(rows) == [tag |-> "list", rows |-> rows]

\* the rows pos+1 .. pos+k of the remote result, in server order
RowsFrom(pos, k) == [i \in 1..k |-> pos + i]

\* Python truth value of a fetch result: None and [] are false
Truthy(v) == v.tag = "list" /\ Len(v.rows) > 0

\* Python: a or b
PyOr(a, b) == IF Truthy(a) THEN a ELSE b

\* pd.DataFrame(data, columns=columns): data is None, a list of rows or a
\* zero-row frame; the index is the RangeIndex 0..len-1
DataFrame(data, cols) ==
    [tag |-> "frame", cols |-> cols, rows |-> data.rows,
     index |-> [i \in 1..Len(data.rows) |-> i - 1]]

\* data.index += offset
ShiftIndex(df, offset) ==
    [df EXCEPT !.index = [i \in 1..Len(df.index) |-> df.index[i] + offset]]

\* data[:0].copy()
ZeroRows(df) == [df EXCEPT !.rows = <<>>, !.index = <<>>]

\* DataFrame.empty: some axis has length 0
IsEmpty(df) == Len(df.rows) = 0 \/ Len(df.cols) = 0

NewCursor ==
    [state |-> "none", pos |-> 0, hasMore |-> TRUE, empties |-> 0,
     execs |-> 0, schemas |-> 0, fetches |-> 0, errors |-> 0,
     closeCalls |-> 0, closes |-> 0, full |-> TRUE, late |-> FALSE,
     maxRows |-> 0, schema |-> <<>>,
     emptyLimit |-> MaxEmptyPages, errorLimit |-> MaxFetchErrors]

\* a cursor of a server that sends no empty page before the end of the
\* result and fails no page fetch
SteadyCursor == [NewCursor EXCEPT !.emptyLimit = 0, !.errorLimit = 0]

\* ------------------------------------------------------------- AioHive.__init__
\* strings are sequences of characters, so that split() is computed
Str(chars) == [tag |-> "str", val |-> chars]

\* def __init__(self, host=None, config=None, port=10000)
DefaultPort == 10000

\* the <value> texts of the configuration resources considered:
\* "t://m:9", "n:9", and no <value> element (findtext gives None)
UriValues ==
    {None, Str(<<"t", ":", "/", "/", "m", ":", "9">>), Str(<<"n", ":", "9">>)}

PropNames == {"hive.metastore.uris", "other"}

Props == [name : PropNames, value : UriValues]

\* the parsed configuration resources: the <property> elements in document order
Configs ==
    {[tag |-> "xml", props |-> ps] :
        ps \in UNION {[1..n -> Props] : n \in 0..MaxProps}}

\* truth value of an argument: None and the empty string are false
ArgTruthy(v) == v.tag # "None" /\ (v.tag = "str" => v.val # <<>>)

\* the places where sep occurs in s
Occurrences(s, sep) ==
    {i \in 1..(Len(s) - Len(sep) + 1) : SubSeq(s, i, i + Len(sep) - 1) = sep}

\* s.split(sep)[-1]
SplitLast(s, sep) ==
    IF Occurrences(s, sep) = {} THEN s
    ELSE LET i == CHOOSE j \in Occurrences(s, sep) :
                      \A k \in Occurrences(s, sep) : k <= j
         IN SubSeq(s, i + Len(sep), Len(s))

\* s.split(sep)[0]
SplitFirst(s, sep) ==
    IF Occurrences(s, sep) = {} THEN s
    ELSE LET i == CHOOSE j \in Occurrences(s, sep) :
                      \A k \in Occurrences(s, sep) : j <= k
         IN SubSeq(s, 1, i - 1)

\* host = uri.split('://')[-1].split(':')[0]
HostOfUri(uri) == SplitFirst(SplitLast(uri, <<":", "/", "/">>), <<":">>)

\* faulty variant: only the case of no argument at all is rejected
ArgsRejectedNeitherOnly(host, config) ==
    host.tag = "None" /\ config.tag = "None"

\* if (host is None and config is None) or (config and host): raise TypeError
ArgsRejected(host, config) ==
    \/ host.tag = "None" /\ config.tag = "None"
    \/ ArgTruthy(config) /\ ArgTruthy(host)

\* for res in cfg.iter('property'): if res.findtext('name') == '...': the
\* index of the first such property, 0 when the loop ends without break
FirstUris(props) ==
    LET hits == {i \in 1..Len(props) : props[i].name = "hive.metastore.uris"}
    IN IF hits = {} THEN 0 ELSE CHOOSE i \in hits : \A j \in hits : i <= j

NewClient(host, config, port) ==
    [pc |-> "check", argHost |-> host, host |-> host, config |-> config,
     port |-> port, error |-> "none", created |-> 0, cli |-> None]

\* lines 20-21: the argument check
CheckArgs ==
    /\ client.pc = "check"
    /\ client' = IF ArgsRejected(client.host, client.config)
                 THEN [client EXCEPT !.pc = "failed", !.error = "TypeError"]
                 ELSE [client EXCEPT !.pc = "config"]
    /\ UNCHANGED <<pc, kind, chunk_size, nrows, err, outcome, cur, columns,
                   local, gen, elems, frames, fgen, yielded, raised, hold,
                   facade>>

\* lines 22-31: if config: look the metastore uri up, take its host
ParseConfig ==
    /\ client.pc = "config"
    /\ client' =
         IF ~ArgTruthy(client.config) THEN [client EXCEPT !.pc = "create"]
         ELSE LET i == FirstUris(client.config.props)
              IN IF i = 0
                 THEN [client EXCEPT !.pc = "failed", !.error = "ValueError"]
                 ELSE IF client.config.props[i].value = None
                 THEN [client EXCEPT !.pc = "failed", !.error = "AttributeError"]
                 ELSE [client EXCEPT !.pc = "create",
                          !.host = Str(HostOfUri(client.config.props[i].value.val))]
    /\ UNCHANGED <<pc, kind, chunk_size, nrows, err, outcome, cur, columns,
                   local, gen, elems, frames, fgen, yielded, raised, hold,
                   facade>>

\* line 32: self.cli = aiohs2.Client(host=host, port=port)
CreateClient ==
    /\ client.pc = "create"
    /\ client' = [client EXCEPT !.pc = "ready", !.created = @ + 1,
                    !.cli = [tag |-> "Client", host |-> client.host,
                             port |-> client.port]]
    /\ UNCHANGED <<pc, kind, chunk_size, nrows, err, outcome, cur, columns,
                   local, gen, elems, frames, fgen, yielded, raised, hold,
                   facade>>

\* AioHive(host="h") constructed
ReadyClient ==
    [NewClient(Str(<<"h">>), None, DefaultPort)
        EXCEPT !.pc = "ready", !.created = 1,
               !.cli = [tag |-> "Client", host |-> Str(<<"h">>), port |-> DefaultPort]]

\* ------------------------------------------------------------- SyncedHive
\* self.loop = asyncio.get_event_loop(); running is the call whose coroutine
\* run_until_complete is driving, inside the call whose facade method (or
\* generator step) the caller is executing, 0 for none; calls and used record
\* the calls made through the facade and the loops that drove them
NewFacade == [loop |-> 1, running |-> 0, inside |-> 0, calls |-> {}, used |-> {}]

\* faulty variant: every run asks for an event loop of its own
RunLoopFresh == facade.loop + Cardinality(facade.used)

\* run(): the loop that drives the coroutine is self.loop
RunLoop == facade.loop

\* a facade method is entered by a caller that is in no other one: the
\* methods are blocking, run_until_complete returns when the coroutine ended
CallerFree == facade.inside = 0

\* self.loop.run_until_complete(coro) starts driving the coroutine of call c
BeginRun(f, c) == [f EXCEPT !.running = c, !.inside = c, !.used = @ \cup {RunLoop}]

\* run_until_complete returns (or raises); leaves: the facade method or
\* generator step returns to the caller as well
EndRun(f, c, leaves) ==
    IF c \notin f.calls THEN f
    ELSE [f EXCEPT !.running = 0, !.inside = IF leaves THEN 0 ELSE @]

\* ------------------------------------------------------------- Init
\* the calls of the set active are about to be made, the others never are
InitWith(active, h, cu) ==
    /\ pc = [c \in Calls |-> IF c \in active THEN "idle" ELSE "off"]
    /\ kind = [c \in Calls |-> "execute"]
    /\ chunk_size = [c \in Calls |-> 1]
    /\ nrows = [c \in Calls |-> 0]
    /\ err = [c \in Calls |-> "none"]
    /\ outcome = [c \in Calls |-> "none"]
    /\ cur = [c \in Calls |-> cu]
    /\ columns = [c \in Calls |-> <<>>]
    /\ local = [c \in Calls |-> [offset |-> 0, empty |-> None]]
    /\ gen = [c \in Calls |-> "none"]
    /\ elems = [c \in Calls |-> <<>>]
    /\ frames = [c \in Calls |-> <<>>]
    /\ fgen = [c \in Calls |-> "none"]
    /\ yielded = [c \in Calls |-> <<>>]
    /\ raised = [c \in Calls |-> "none"]
    /\ hold = [c \in Calls |-> h]
    /\ client = ReadyClient
    /\ facade = NewFacade

\* one logical call at a time (spec section 5: each call completes, or sets up
\* its lazy sequence, before the next is issued); a call owns a fresh cursor.
\* An async consumer drives each element before it pulls the next.
Init == InitWith({1}, 1, NewCursor)

\* ------------------------------------------------------------- calls
\* the facade generator ends when the coroutine it drives raises
FacadeEnds(c) ==
    fgen' = IF kind[c] = "synced_iter" THEN [fgen EXCEPT ![c] = "finished"] ELSE fgen

\* faulty variant: SyncedHive.iter drives the construction when it is called
CallEager(c, k, n, cs) ==
    /\ pc[c] = "idle"
    /\ client.pc = "ready"
    /\ k = "synced_iter" => CallerFree
    /\ kind' = [kind EXCEPT ![c] = k]
    /\ nrows' = [nrows EXCEPT ![c] = n]
    /\ chunk_size' = [chunk_size EXCEPT ![c] = cs]
    /\ pc' = [pc EXCEPT ![c] = "open"]
    /\ fgen' = [fgen EXCEPT ![c] = IF k = "synced_iter" THEN "created" ELSE "none"]
    /\ facade' = IF k = "synced_iter" THEN [facade EXCEPT !.calls = @ \cup {c}]
                 ELSE facade
    /\ UNCHANGED <<err, outcome, cur, columns, local, gen, elems, frames,
                   yielded, raised, hold, client>>

\* client.execute(q) / client.fetch(q, n) / client.iter(q, n) are called and
\* driven; SyncedHive.iter(q, n) only creates the facade's generator
Call(c, k, n, cs) ==
    /\ pc[c] = "idle"
    /\ client.pc = "ready"
    /\ k = "synced_iter" => CallerFree
    /\ kind' = [kind EXCEPT ![c] = k]
    /\ nrows' = [nrows EXCEPT ![c] = n]
    /\ chunk_size' = [chunk_size EXCEPT ![c] = cs]
    /\ pc' = [pc EXCEPT ![c] = IF k = "synced_iter" THEN "lazy" ELSE "open"]
    /\ fgen' = [fgen EXCEPT ![c] = IF k = "synced_iter" THEN "created" ELSE "none"]
    /\ facade' = IF k = "synced_iter" THEN [facade EXCEPT !.calls = @ \cup {c}]
                 ELSE facade
    /\ UNCHANGED <<err, outcome, cur, columns, local, gen, elems, frames,
                   yielded, raised, hold, client>>

\* SyncedHive.execute / SyncedHive.fetch: self.run(func(self.hive, ...))
SyncedCall(c, k, n, cs) ==
    /\ pc[c] = "idle"
    /\ client.pc = "ready"
    /\ k \in {"execute", "fetch"}
    /\ CallerFree
    /\ kind' = [kind EXCEPT ![c] = k]
    /\ nrows' = [nrows EXCEPT ![c] = n]
    /\ chunk_size' = [chunk_size EXCEPT ![c] = cs]
    /\ pc' = [pc EXCEPT ![c] = "open"]
    /\ facade' = BeginRun([facade EXCEPT !.calls = @ \cup {c}], c)
    /\ UNCHANGED <<err, outcome, cur, columns, local, gen, elems, frames,
                   fgen, yielded, raised, hold, client>>

\* cur = yield from self.cli.cursor()        (outside every try)
CursorOpen(c) ==
    /\ pc[c] = "open"
    /\ \/ /\ cur' = [cur EXCEPT ![c].state = "open"]
          /\ pc' = [pc EXCEPT ![c] = "exec"]
          /\ UNCHANGED <<outcome, fgen, facade>>
       \/ /\ outcome' = [outcome EXCEPT ![c] = "OpenError"]
          /\ pc' = [pc EXCEPT ![c] = "done"]
          /\ FacadeEnds(c)
          /\ facade' = EndRun(facade, c, TRUE)
          /\ UNCHANGED cur
    /\ UNCHANGED <<kind, chunk_size, nrows, err, columns, local, gen, elems,
                   frames, yielded, raised, hold, client>>

\* where a raise inside the try block goes: the finally clause of execute and
\* fetch, the except clause of iter
Handler(c) == IF kind[c] \in {"execute", "fetch"} THEN "close" ELSE "except"

\* yield from cur.execute(request)
CurExecute(c) ==
    /\ pc[c] = "exec"
    /\ cur' = [cur EXCEPT ![c].execs = @ + 1,
                          ![c].late = @ \/ cur[c].closes > 0]
    /\ \/ /\ pc' = [pc EXCEPT ![c] = IF kind[c] = "execute" THEN "close" ELSE "schema"]
          /\ UNCHANGED err
       \/ /\ err' = [err EXCEPT ![c] = "ExecuteError"]
          /\ pc' = [pc EXCEPT ![c] = Handler(c)]
    /\ UNCHANGED <<kind, chunk_size, nrows, outcome, columns, local, gen,
                   elems, frames, fgen, yielded, raised, hold, client, facade>>

\* schema = yield from cur.getSchema(); columns = pd.Index([...])
GetSchema(c) ==
    /\ pc[c] = "schema"
    /\ \/ /\ \E schema \in SchemaInfos :
               /\ columns' = [columns EXCEPT ![c] = ColumnNames(schema)]
               /\ cur' = [cur EXCEPT ![c].schemas = @ + 1,
                                     ![c].schema = schema,
                                     ![c].late = @ \/ cur[c].closes > 0]
          /\ pc' = [pc EXCEPT ![c] = IF kind[c] = "fetch" THEN "fetch" ELSE "ret"]
          /\ UNCHANGED err
       \/ /\ cur' = [cur EXCEPT ![c].schemas = @ + 1,
                                ![c].late = @ \/ cur[c].closes > 0]
          /\ err' = [err EXCEPT ![c] = "SchemaError"]
          /\ pc' = [pc EXCEPT ![c] = Handler(c)]
          /\ UNCHANGED columns
    /\ UNCHANGED <<kind, chunk_size, nrows, outcome, local, gen, elems,
                   frames, fgen, yielded, raised, hold, client, facade>>

\* The cursor after one successful page fetch of k rows with maxRows = cs.
\* more is the server's flag once every row has been delivered: it may end
\* the stream with the last rows or with a later empty page.
Fetched(cu, n, cs, k, more) ==
    [cu EXCEPT !.pos = @ + k,
               !.fetches = @ + 1,
               !.empties = IF k = 0 THEN @ + 1 ELSE @,
               !.full = @ /\ k = Min(cs, n - cu.pos),
               !.late = @ \/ cu.closes > 0,
               !.hasMore = IF cu.pos + k < n THEN TRUE
                           ELSE IF k = 0 THEN FALSE ELSE more]

\* the page sizes the server may answer with: at most maxRows rows, at most
\* what is left, and only boundedly many empty pages before the end
PageSizes(cu, n, cs) ==
    {k \in 0..Min(cs, n - cu.pos) :
        k = 0 /\ cu.pos < n => cu.empties < cu.emptyLimit}

\* the value of a page of k rows: a list, or None for an absent page
PageValues(cu, k) ==
    IF k = 0 THEN {None, List(<<>>)} ELSE {List(RowsFrom(cu.pos, k))}

\* faulty variant: fetch asks for twice the chunk size
FetchMaxRowsDouble(c) == 2 * chunk_size[c]

\* cur.fetch(maxRows=chunk_size): the maxRows argument of fetch
FetchMaxRows(c) == chunk_size[c]

\* return pd.DataFrame((yield from cur.fetch(maxRows=chunk_size)) or None,
\*                     columns=columns)
FetchPage(c) ==
    /\ pc[c] = "fetch"
    /\ pc' = [pc EXCEPT ![c] = "close"]
    /\ \/ \E k \in PageSizes(cur[c], nrows[c], FetchMaxRows(c)), more \in BOOLEAN :
            \E page \in PageValues(cur[c], k) :
              /\ cur' = [cur EXCEPT ![c] =
                           [Fetched(@, nrows[c], FetchMaxRows(c), k, more)
                              EXCEPT !.maxRows = FetchMaxRows(c)]]
              /\ frames' = [frames EXCEPT ![c] =
                              <<DataFrame(PyOr(page, None), columns[c])>>]
              /\ UNCHANGED err
       \/ /\ cur' = [cur EXCEPT ![c].fetches = @ + 1, ![c].errors = @ + 1,
                                ![c].maxRows = FetchMaxRows(c)]
          /\ err' = [err EXCEPT ![c] = "FetchError"]
          /\ UNCHANGED frames
    /\ UNCHANGED <<kind, chunk_size, nrows, outcome, columns, local, gen,
                   elems, fgen, yielded, raised, hold, client, facade>>

\* what leaves a finally clause whose close succeeded (closeOk) or raised:
\* an exception raised inside finally replaces the one in flight
AfterFinally(pending, closeOk) ==
    IF ~closeOk THEN "CloseError"
    ELSE IF pending = "none" THEN "returned" ELSE pending

\* faulty variant: the finally clause calls cur.close() without driving it
FinallyCloseUndriven(c) ==
    /\ pc[c] = "close"
    /\ cur' = [cur EXCEPT ![c].closeCalls = @ + 1]
    /\ outcome' = [outcome EXCEPT ![c] = AfterFinally(err[c], TRUE)]
    /\ pc' = [pc EXCEPT ![c] = "done"]
    /\ facade' = EndRun(facade, c, TRUE)
    /\ UNCHANGED <<kind, chunk_size, nrows, err, columns, local, gen, elems,
                   frames, fgen, yielded, raised, hold, client>>

\* finally: yield from cur.close()           (execute and fetch)
FinallyClose(c) ==
    /\ pc[c] = "close"
    /\ \E closeOk \in BOOLEAN :
         /\ cur' = [cur EXCEPT ![c].closeCalls = @ + 1,
                               ![c].closes = @ + 1,
                               ![c].state = IF closeOk THEN "closed" ELSE @]
         /\ outcome' = [outcome EXCEPT ![c] = AfterFinally(err[c], closeOk)]
    /\ pc' = [pc EXCEPT ![c] = "done"]
    /\ facade' = EndRun(facade, c, TRUE)
    /\ UNCHANGED <<kind, chunk_size, nrows, err, columns, local, gen, elems,
                   frames, fgen, yielded, raised, hold, client>>

\* except: cur.close(); raise                (iter) -- the close coroutine is
\* created and dropped, never driven
ExceptClose(c) ==
    /\ pc[c] = "except"
    /\ cur' = [cur EXCEPT ![c].closeCalls = @ + 1]
    /\ outcome' = [outcome EXCEPT ![c] = err[c]]
    /\ pc' = [pc EXCEPT ![c] = "done"]
    /\ FacadeEnds(c)
    /\ facade' = EndRun(facade, c, TRUE)
    /\ UNCHANGED <<kind, chunk_size, nrows, err, columns, local, gen, elems,
                   frames, yielded, raised, hold, client>>

\* faulty variant: class local is defined once, every invocation shares it
LocalShared(c) == 1

\* class local is defined inside iter: every invocation has its own
LocalOf(c) == c

\* faulty variant: the chunk size is not passed on, pages hold one row
IterMaxRowsOne(c) == 1

\* cur.iter(maxRows=chunk_size): the maxRows argument of every page fetch
IterMaxRows(c) == chunk_size[c]

\* chunks = cur.iter(maxRows=chunk_size); class local; return closing()
ReturnClosing(c) ==
    /\ pc[c] = "ret"
    /\ cur' = [cur EXCEPT ![c].maxRows = IterMaxRows(c)]
    /\ local' = [local EXCEPT ![LocalOf(c)] = [offset |-> 0, empty |-> None]]
    /\ gen' = [gen EXCEPT ![c] = "created"]
    /\ outcome' = [outcome EXCEPT ![c] = "returned"]
    /\ pc' = [pc EXCEPT ![c] = "done"]
    /\ fgen' = IF kind[c] = "synced_iter" THEN [fgen EXCEPT ![c] = "looping"] ELSE fgen
    /\ facade' = EndRun(facade, c, FALSE)
    /\ UNCHANGED <<kind, chunk_size, nrows, err, columns, elems, frames,
                   yielded, raised, hold, client>>

\* ------------------------------------------------------------- closing()
Synced(c) == kind[c] = "synced_iter"

\* the elements obtained from closing() and not yet driven to their end
Pending(c) ==
    Cardinality({i \in 1..Len(elems[c]) : elems[c][i].st \in {"pending", "fetched"}})

\* who may ask closing() for its next element: SyncedHive.iter at its for
\* statement, or an async consumer holding fewer than hold[c] elements
MayPull(c) ==
    IF Synced(c) THEN fgen[c] = "looping" ELSE Pending(c) < hold[c]

\* the finally clause of closing(): cur.close() -- called, not driven
ClosingFinally(cu) == [cu EXCEPT !.closeCalls = @ + 1]

\* faulty variant: closing() does not notice the end of the page stream and
\* waits for a chunk that never comes
PullWaitsAtEnd(c) ==
    /\ gen[c] \in {"created", "suspended"}
    /\ MayPull(c)
    /\ IF cur[c].hasMore
       THEN /\ elems' = [elems EXCEPT ![c] = Append(@, [st |-> "pending", page |-> None])]
            /\ gen' = [gen EXCEPT ![c] = "suspended"]
            /\ fgen' = IF Synced(c) THEN [fgen EXCEPT ![c] = "driving"] ELSE fgen
            /\ facade' = IF Synced(c) THEN BeginRun(facade, c) ELSE facade
            /\ UNCHANGED cur
       ELSE UNCHANGED <<cur, gen, fgen, facade, elems>>
    /\ UNCHANGED <<pc, kind, chunk_size, nrows, err, outcome, columns, local,
                   frames, yielded, raised, hold, client>>

\* next(closing()):  for chunk in chunks: yield to_frame(chunk)
\* chunks ends when the cursor knows of no more rows; then finally runs
Pull(c) ==
    /\ gen[c] \in {"created", "suspended"}
    /\ MayPull(c)
    /\ IF cur[c].hasMore
       THEN /\ elems' = [elems EXCEPT ![c] = Append(@, [st |-> "pending", page |-> None])]
            /\ gen' = [gen EXCEPT ![c] = "suspended"]
            /\ fgen' = IF Synced(c) THEN [fgen EXCEPT ![c] = "driving"] ELSE fgen
            /\ facade' = IF Synced(c) THEN BeginRun(facade, c) ELSE facade
            /\ UNCHANGED cur
       ELSE /\ cur' = [cur EXCEPT ![c] = ClosingFinally(@)]
            /\ gen' = [gen EXCEPT ![c] = "exhausted"]
            /\ fgen' = IF Synced(c) THEN [fgen EXCEPT ![c] = "finished"] ELSE fgen
            /\ facade' = EndRun(facade, c, TRUE)
            /\ UNCHANGED elems
    /\ UNCHANGED <<pc, kind, chunk_size, nrows, err, outcome, columns, local,
                   frames, yielded, raised, hold, client>>

\* the generator closing() is finalized while it is not running: at its yield
\* GeneratorExit runs the finally clause; a generator never started just ends
FinalizeGen(c) ==
    /\ gen' = [gen EXCEPT ![c] = IF @ \in {"created", "suspended"} THEN "closed" ELSE @]
    /\ cur' = [cur EXCEPT ![c] = IF gen[c] = "suspended" THEN ClosingFinally(@) ELSE @]

\* data = pd.DataFrame((yield from chunk_co) or ...): the page fetch of
\* element i is driven; when it raises, to_frame raises to whoever drives it,
\* and in SyncedHive.iter the error leaves the facade's generator, which
\* drops closing()
ElemFetch(c, i) ==
    /\ i \in 1..Len(elems[c])
    /\ elems[c][i].st = "pending"
    /\ \/ \E k \in PageSizes(cur[c], nrows[c], cur[c].maxRows), more \in BOOLEAN :
            \E page \in PageValues(cur[c], k) :
              /\ cur' = [cur EXCEPT ![c] = Fetched(@, nrows[c], cur[c].maxRows, k, more)]
              /\ elems' = [elems EXCEPT ![c][i] = [st |-> "fetched", page |-> page]]
              /\ UNCHANGED <<gen, fgen, raised, facade>>
       \/ /\ cur[c].errors < cur[c].errorLimit
          /\ elems' = [elems EXCEPT ![c][i].st = "raised"]
          /\ raised' = [raised EXCEPT ![c] = "FetchError"]
          /\ facade' = EndRun(facade, c, TRUE)
          /\ IF Synced(c)
             THEN /\ fgen' = [fgen EXCEPT ![c] = "finished"]
                  /\ gen' = [gen EXCEPT ![c] = "closed"]
                  /\ cur' = [cur EXCEPT ![c] =
                               [ClosingFinally(@) EXCEPT !.fetches = @ + 1,
                                                         !.errors = @ + 1,
                                                         !.late = @ \/ cur[c].closes > 0]]
             ELSE /\ cur' = [cur EXCEPT ![c].fetches = @ + 1,
                                        ![c].errors = @ + 1,
                                        ![c].late = @ \/ cur[c].closes > 0]
                  /\ UNCHANGED <<gen, fgen>>
    /\ UNCHANGED <<pc, kind, chunk_size, nrows, err, outcome, columns, local,
                   frames, yielded, hold, client>>

\* to_frame after its page arrived (no suspension point from here on):
\*   data = pd.DataFrame(page or local.empty, columns=columns)
\*   data.index += local.offset
\* faulty variant: the index of the table is not moved to the running offset
ToFrameUnshifted(page, loc, cols) == DataFrame(PyOr(page, loc.empty), cols)

ToFrame(page, loc, cols) == ShiftIndex(DataFrame(PyOr(page, loc.empty), cols), loc.offset)

\* faulty variant: the running offset is not advanced
LocalAfterNoAdvance(loc, data) ==
    [offset |-> loc.offset,
     empty |-> IF loc.empty = None THEN ZeroRows(data) ELSE loc.empty]

\* faulty variant: the running offset is assigned, not advanced
LocalAfterAssign(loc, data) ==
    [offset |-> Len(data.index),
     empty |-> IF loc.empty = None THEN ZeroRows(data) ELSE loc.empty]

\*   local.offset += len(data)
\*   if local.empty is None: local.empty = data[:0].copy()
LocalAfter(loc, data) ==
    [offset |-> loc.offset + Len(data.index),
     empty |-> IF loc.empty = None THEN ZeroRows(data) ELSE loc.empty]

\* faulty variant: for an empty or absent page the cached zero-row table is
\* handed back, no table is constructed
ElemConvertReuseEmpty(c, i) ==
    /\ i \in 1..Len(elems[c])
    /\ elems[c][i].st = "fetched"
    /\ LET data == ToFrame(elems[c][i].page, local[c], columns[c])
       IN /\ frames' = [frames EXCEPT ![c] =
                          IF Truthy(elems[c][i].page) \/ local[c].empty = None
                          THEN Append(@, data) ELSE @]
          /\ local' = [local EXCEPT ![c] = LocalAfter(@, data)]
    /\ elems' = [elems EXCEPT ![c][i] = [st |-> "done", page |-> None]]
    /\ fgen' = IF Synced(c) THEN [fgen EXCEPT ![c] = "looping"] ELSE fgen
    /\ facade' = EndRun(facade, c, FALSE)
    /\ UNCHANGED <<pc, kind, chunk_size, nrows, err, outcome, cur, columns,
                   gen, yielded, raised, hold, client>>

ElemConvert(c, i) ==
    /\ i \in 1..Len(elems[c])
    /\ elems[c][i].st = "fetched"
    /\ LET data == ToFrame(elems[c][i].page, local[LocalOf(c)], columns[c])
       IN /\ frames' = [frames EXCEPT ![c] = Append(@, data)]
          /\ local' = [local EXCEPT ![LocalOf(c)] = LocalAfter(@, data)]
    /\ elems' = [elems EXCEPT ![c][i] = [st |-> "done", page |-> None]]
    /\ fgen' = IF Synced(c) THEN [fgen EXCEPT ![c] = "filter"] ELSE fgen
    /\ facade' = EndRun(facade, c, FALSE)
    /\ UNCHANGED <<pc, kind, chunk_size, nrows, err, outcome, cur, columns,
                   gen, yielded, raised, hold, client>>

\* an async consumer closes or drops the generator closing()
Finalize(c) ==
    /\ kind[c] = "iter"
    /\ gen[c] \in {"created", "suspended"}
    /\ FinalizeGen(c)
    /\ UNCHANGED <<pc, kind, chunk_size, nrows, err, outcome, columns, local,
                   elems, frames, fgen, yielded, raised, hold, client, facade>>

\* ------------------------------------------------------------- SyncedHive.iter
\* faulty variant: every table is yielded
KeptAlways(data) == TRUE

\* SyncedHive.iter keeps a table:  if not data.empty
Kept(data) == ~IsEmpty(data)

\* next() on the facade's generator: the first one starts
\* self.run(self.hive.iter(...)), a later one resumes the for loop
SyncedNext(c) ==
    /\ Synced(c)
    /\ CallerFree
    /\ \/ /\ fgen[c] = "created"
          /\ fgen' = [fgen EXCEPT ![c] = "constructing"]
          /\ pc' = [pc EXCEPT ![c] = "open"]
          /\ facade' = BeginRun(facade, c)
       \/ /\ fgen[c] = "yielded"
          /\ fgen' = [fgen EXCEPT ![c] = "looping"]
          /\ facade' = [facade EXCEPT !.inside = c]
          /\ UNCHANGED pc
    /\ UNCHANGED <<kind, chunk_size, nrows, err, outcome, cur, columns, local,
                   gen, elems, frames, yielded, raised, hold, client>>

\* data = self.run(chunk) returned:  if not data.empty: yield data
SyncedFilter(c) ==
    /\ fgen[c] = "filter"
    /\ LET data == frames[c][Len(frames[c])]
       IN IF Kept(data)
          THEN /\ yielded' = [yielded EXCEPT ![c] = Append(@, data)]
               /\ fgen' = [fgen EXCEPT ![c] = "yielded"]
               /\ facade' = EndRun(facade, c, TRUE)
          ELSE /\ fgen' = [fgen EXCEPT ![c] = "looping"]
               /\ UNCHANGED <<yielded, facade>>
    /\ UNCHANGED <<pc, kind, chunk_size, nrows, err, outcome, cur, columns,
                   local, gen, elems, frames, raised, hold, client>>

\* the caller closes or drops the facade's generator: before its first next()
\* nothing has run; at its yield GeneratorExit ends it and drops closing()
SyncedAbandon(c) ==
    /\ Synced(c)
    /\ CallerFree
    /\ fgen[c] \in {"created", "yielded"}
    /\ fgen' = [fgen EXCEPT ![c] = "finished"]
    /\ pc' = [pc EXCEPT ![c] = "done"]
    /\ FinalizeGen(c)
    /\ UNCHANGED <<kind, chunk_size, nrows, err, outcome, columns, local,
                   elems, frames, yielded, raised, hold, client, facade>>

\* ------------------------------------------------------------- Spec
Next ==
    \E c \in Calls :
        \/ \E k \in Kinds, n \in 0..MaxRows, cs \in 1..MaxChunk : Call(c, k, n, cs)
        \/ CursorOpen(c)
        \/ CurExecute(c)
        \/ GetSchema(c)
        \/ FetchPage(c)
        \/ FinallyClose(c)
        \/ ExceptClose(c)
        \/ ReturnClosing(c)
        \/ Pull(c)
        \/ \E i \in 1..Len(elems[c]) : ElemFetch(c, i)
        \/ \E i \in 1..Len(elems[c]) : ElemConvert(c, i)
        \/ Finalize(c)
        \/ SyncedNext(c)
        \/ SyncedFilter(c)
        \/ SyncedAbandon(c)

Spec == Init /\ [][Next]_vars

\* the blocking facade used for two logical calls: call 1 is a chunk sequence,
\* call 2 an execute or a fetch made while the sequence is not being stepped
InitFacade == InitWith(Calls, 1, NewCursor)

NextFacade ==
    \/ \E n \in 0..MaxFacadeRows, cs \in 1..MaxChunk : Call(1, "synced_iter", n, cs)
    \/ \E k \in {"execute", "fetch"}, n \in 0..MaxFacadeRows, cs \in 1..MaxChunk :
           SyncedCall(2, k, n, cs)
    \/ \E c \in Calls :
        \/ CursorOpen(c)
        \/ CurExecute(c)
        \/ GetSchema(c)
        \/ FetchPage(c)
        \/ FinallyClose(c)
        \/ ExceptClose(c)
        \/ ReturnClosing(c)
        \/ Pull(c)
        \/ \E i \in 1..Len(elems[c]) : ElemFetch(c, i)
        \/ \E i \in 1..Len(elems[c]) : ElemConvert(c, i)
        \/ SyncedNext(c)
        \/ SyncedFilter(c)
        \/ SyncedAbandon(c)

SpecFacade == InitFacade /\ [][NextFacade]_vars

\* a caller that iterates a facade chunk sequence to its end: the for loop of
\* the caller keeps pulling, run_until_complete drives each coroutine until it
\* has ended, and the server answers every request
NextIterate ==
    \E c \in Calls :
        \/ \E n \in 0..MaxRows, cs \in 1..MaxChunk : Call(c, "synced_iter", n, cs)
        \/ CursorOpen(c)
        \/ CurExecute(c)
        \/ GetSchema(c)
        \/ ExceptClose(c)
        \/ ReturnClosing(c)
        \/ Pull(c)
        \/ \E i \in 1..Len(elems[c]) : ElemFetch(c, i)
        \/ \E i \in 1..Len(elems[c]) : ElemConvert(c, i)
        \/ SyncedNext(c)
        \/ SyncedFilter(c)

SpecLive == Init /\ [][NextIterate]_vars /\ WF_vars(NextIterate)

\* two chunk sequences of one client, created and pulled in any interleaving;
\* the server sends no empty page before the end of a result and fails no
\* page fetch
InitTwo == InitWith(Calls, 1, SteadyCursor)

NextTwo ==
    \E c \in Calls :
        \/ \E n \in 0..MaxTwoRows, cs \in 1..MaxChunk : Call(c, "iter", n, cs)
        \/ CursorOpen(c)
        \/ CurExecute(c)
        \/ GetSchema(c)
        \/ ExceptClose(c)
        \/ ReturnClosing(c)
        \/ Pull(c)
        \/ \E i \in 1..Len(elems[c]) : ElemFetch(c, i)
        \/ \E i \in 1..Len(elems[c]) : ElemConvert(c, i)
        \/ Finalize(c)

SpecTwo == InitTwo /\ [][NextTwo]_vars

\* one async chunk sequence whose consumer holds up to two elements and
\* drives them in any order; the server sends no empty page before the end of
\* the result and fails no page fetch
InitFree == InitWith({1}, 2, SteadyCursor)

NextFree ==
    \E c \in Calls :
        \/ \E n \in 0..MaxFreeRows, cs \in 1..MaxChunk : Call(c, "iter", n, cs)
        \/ CursorOpen(c)
        \/ CurExecute(c)
        \/ GetSchema(c)
        \/ ExceptClose(c)
        \/ ReturnClosing(c)
        \/ Pull(c)
        \/ \E i \in 1..Len(elems[c]) : ElemFetch(c, i)
        \/ \E i \in 1..Len(elems[c]) : ElemConvert(c, i)
        \/ Finalize(c)

SpecFree == InitFree /\ [][NextFree]_vars

\* the constructor alone, over every combination of its arguments
InitConstruct ==
    /\ \E host \in {None, Str(<<"h">>)}, config \in {None} \cup Configs,
          port \in {DefaultPort, DefaultPort + 1} :
            client = NewClient(host, config, port)
    /\ pc = [c \in Calls |-> "idle"]
    /\ kind = [c \in Calls |-> "execute"]
    /\ chunk_size = [c \in Calls |-> 1]
    /\ nrows = [c \in Calls |-> 0]
    /\ err = [c \in Calls |-> "none"]
    /\ outcome = [c \in Calls |-> "none"]
    /\ cur = [c \in Calls |-> NewCursor]
    /\ columns = [c \in Calls |-> <<>>]
    /\ local = [c \in Calls |-> [offset |-> 0, empty |-> None]]
    /\ gen = [c \in Calls |-> "none"]
    /\ elems = [c \in Calls |-> <<>>]
    /\ frames = [c \in Calls |-> <<>>]
    /\ fgen = [c \in Calls |-> "none"]
    /\ yielded = [c \in Calls |-> <<>>]
    /\ raised = [c \in Calls |-> "none"]
    /\ hold = [c \in Calls |-> 1]
    /\ facade = NewFacade

NextConstruct == CheckArgs \/ ParseConfig \/ CreateClient

SpecConstruct == InitConstruct /\ [][NextConstruct]_vars

\* ------------------------------------------------------------- properties
IsSequence(c) == kind[c] \in {"iter", "synced_iter"}

RECURSIVE ConcatRows(_)
ConcatRows(fs) == IF fs = <<>> THEN <<>> ELSE Head(fs).rows \o ConcatRows(Tail(fs))

RECURSIVE ConcatIndex(_)
ConcatIndex(fs) == IF fs = <<>> THEN <<>> ELSE Head(fs).index \o ConcatIndex(Tail(fs))

RECURSIVE NonEmpty(_)
NonEmpty(fs) ==
    IF fs = <<>> THEN <<>>
    ELSE IF Len(Head(fs).rows) = 0 THEN NonEmpty(Tail(fs))
    ELSE <<Head(fs)>> \o NonEmpty(Tail(fs))

\* the sequence a, a+1, ..., b
Range(a, b) == [i \in 1..(b - a + 1) |-> a + i - 1]

CeilDiv(n, d) == (n + d - 1) \div d

\* the tables the caller of fetchChunks has received: from the facade the
\* ones it yielded, from the async sequence the ones its elements returned
Received(c) == IF Synced(c) THEN yielded[c] ELSE frames[c]

\* C1: a fetchChunks sequence consumed to normal exhaustion has had its
\* cursor closed exactly once (the close operation carried out), and no
\* remote operation was issued on the cursor after the close.
C1_ExhaustedSequenceClosed ==
    \A c \in Calls :
        gen[c] = "exhausted" => cur[c].closes = 1 /\ ~cur[c].late

\* C2: a fetchChunks sequence abandoned after the consumer received some of
\* its tables (async client or blocking facade) has had its cursor closed
\* exactly once.
C2_AbandonedSequenceClosed ==
    \A c \in Calls :
        gen[c] = "closed" /\ raised[c] = "none" /\ Len(Received(c)) >= 1
            => cur[c].closes = 1

\* C3: in execute and fetch, once the cursor was opened it is closed exactly
\* once before the call returns or propagates its error, whichever remote
\* step raised; it is never closed twice and nothing is issued after the close.
C3_ExecuteFetchCloseOnce ==
    \A c \in Calls :
        kind[c] \in {"execute", "fetch"} =>
            /\ cur[c].closes <= 1
            /\ ~cur[c].late
            /\ outcome[c] # "none" /\ cur[c].state # "none" => cur[c].closes = 1
            /\ pc[c] = "done" /\ cur[c].state # "none" => cur[c].closes = 1

C3_Witness ==
    \E c \in Calls :
        /\ kind[c] = "fetch"
        /\ outcome[c] = "FetchError"
        /\ cur[c].closes = 1

\* C4: for a result of N rows and any chunk size, the tables of a fetchChunks
\* sequence driven in order to exhaustion (async or facade), concatenated,
\* hold exactly the rows 1..N in server order under the schema's columns,
\* with the row index 0, 1, ..., N-1.
C4_ChunksConcatenate ==
    \A c \in Calls :
        gen[c] = "exhausted" /\ raised[c] = "none" =>
            /\ ConcatRows(Received(c)) = RowsFrom(0, nrows[c])
            /\ ConcatIndex(Received(c)) = Range(0, nrows[c] - 1)
            /\ \A i \in 1..Len(Received(c)) : Received(c)[i].cols = columns[c]

C4_Witness ==
    \E c \in Calls :
        /\ kind[c] = "iter"
        /\ gen[c] = "exhausted" /\ raised[c] = "none"
        /\ nrows[c] = 5 /\ chunk_size[c] = 2
        /\ Len(NonEmpty(frames[c])) >= 3

\* C5: when a page fetch raises during fetchChunks iteration, the error
\* reaches the caller only after the cursor has been closed, the sequence is
\* terminated, and no later pull produces another element or page fetch.
C5_FetchErrorClosesAndEnds ==
    \A c \in Calls :
        raised[c] # "none" =>
            /\ cur[c].closes = 1
            /\ gen[c] \notin {"created", "suspended"}
            /\ \A i, j \in 1..Len(elems[c]) : elems[c][i].st = "raised" => j <= i

\* C6: when execute or getSchema raises in the construction of a fetchChunks
\* sequence, the cursor is closed, that error is what the construction
\* raises, and no sequence exists.
C6_ConstructionFailureCloses ==
    \A c \in Calls :
        IsSequence(c) /\ pc[c] = "done" /\ err[c] \in {"ExecuteError", "SchemaError"}
            => /\ cur[c].closes = 1
               /\ outcome[c] = err[c]
               /\ gen[c] = "none"

\* C7: the blocking facade never yields a table with zero rows; for a result
\* of zero rows it yields nothing; and what it has yielded is exactly the
\* non-empty tables of the underlying sequence, in order.
C7_FacadeSkipsEmpty ==
    \A c \in Calls :
        Synced(c) =>
            /\ \A i \in 1..Len(yielded[c]) : Len(yielded[c][i].rows) > 0
            /\ nrows[c] = 0 => yielded[c] = <<>>
            /\ fgen[c] # "filter" => yielded[c] = NonEmpty(frames[c])

C7_Witness ==
    \E c \in Calls :
        /\ Synced(c) /\ fgen[c] = "finished" /\ gen[c] = "exhausted"
        /\ Len(yielded[c]) >= 2
        /\ \E i \in 1..Len(frames[c]) :
             i < Len(frames[c]) /\ Len(frames[c][i].rows) = 0

\* C8: fetch makes at most one page fetch, with maxRows = chunk_size, and
\* returns the table of that one page: the first rows of the result, never
\* more than chunk_size, exactly the first chunk_size when the server fills
\* the page of a longer result, and a zero-row table with the schema's
\* columns for an empty or absent page.
C8_FetchFirstPageOnly ==
    \A c \in Calls :
        kind[c] = "fetch" =>
            /\ cur[c].fetches <= 1
            /\ cur[c].fetches = 1 => cur[c].maxRows = chunk_size[c]
            /\ outcome[c] = "returned" =>
                 /\ cur[c].fetches = 1
                 /\ cur[c].pos <= chunk_size[c]
                 /\ frames[c] = <<[tag |-> "frame", cols |-> columns[c],
                                   rows |-> RowsFrom(0, cur[c].pos),
                                   index |-> Range(0, cur[c].pos - 1)]>>
                 /\ cur[c].full /\ nrows[c] > chunk_size[c]
                      => frames[c][1].rows = RowsFrom(0, chunk_size[c])

C8_Witness ==
    \E c \in Calls :
        /\ kind[c] = "fetch" /\ outcome[c] = "returned"
        /\ nrows[c] = 5 /\ chunk_size[c] = 2
        /\ frames[c][1].rows = <<1, 2>>

C10_CloseFailureKeepsOriginal ==
    \A c \in Calls :
        kind[c] \in {"execute", "fetch"} /\ pc[c] = "done" /\ err[c] # "none"
            => cur[c].closes = 1 /\ outcome[c] = err[c]

\* C11: every construction failure is raised before aiohs2.Client is created
\* and leaves no client: construction with both host and config, or with
\* neither, ends in TypeError, a configuration resource without a
\* 'hive.metastore.uris' property in ValueError, and in none of these cases
\* is a Client ever created.
C11_ConstructionFailsFast ==
    LET a == client
        neither == a.argHost = None /\ a.config = None
        both == a.argHost # None /\ a.config # None
        missing == a.config # None /\ FirstUris(a.config.props) = 0
        ended == a.pc \in {"ready", "failed"}
    IN /\ a.error # "none" => a.created = 0 /\ a.cli = None
       /\ a.created > 0 => ~neither /\ ~both /\ ~missing
       /\ a.created <= 1
       /\ ended /\ (neither \/ both) => a.error = "TypeError"
       /\ ended /\ missing /\ ~both => a.error = "ValueError"

C11_Witness ==
    /\ client.pc = "failed"
    /\ client.error = "ValueError"
    /\ client.config # None
    /\ Len(client.config.props) = MaxProps
    /\ client.created = 0

\* the number of rows of the first n tables of fs
RECURSIVE RowsBefore(_, _)
RowsBefore(fs, n) == IF n = 0 THEN 0 ELSE RowsBefore(fs, n - 1) + Len(fs[n].rows)

\* the elements of a sequence in a given state
InState(c, sts) == {i \in 1..Len(elems[c]) : elems[c][i].st \in sts}

\* C12: within one fetchChunks invocation the running offset starts at 0,
\* never decreases and, after every conversion, is the total row count of
\* the tables converted so far; the row indices of each table are
\* offset_before .. offset_before + rows - 1, so the ranges of two tables
\* are disjoint and increase in emission order.
C12_OffsetInvariant ==
    \A c \in Calls :
        IsSequence(c) /\ gen[c] # "none" =>
            /\ local[c].offset = RowsBefore(frames[c], Len(frames[c]))
            /\ gen[c] = "created" => local[c].offset = 0
            /\ \A i \in 1..Len(frames[c]) :
                 frames[c][i].index =
                    Range(RowsBefore(frames[c], i - 1), RowsBefore(frames[c], i) - 1)
            /\ \A i, j \in 1..Len(frames[c]) :
                 i < j => \A x \in 1..Len(frames[c][i].index),
                             y \in 1..Len(frames[c][j].index) :
                                frames[c][i].index[x] < frames[c][j].index[y]

C12_OffsetMonotone ==
    [][\A c \in Calls : gen[c] # "none" => local'[c].offset >= local[c].offset]_vars

C12_RunningOffset == []C12_OffsetInvariant /\ C12_OffsetMonotone

C12_Witness ==
    \E c \in Calls :
        /\ IsSequence(c)
        /\ Len(frames[c]) >= 3
        /\ local[c].offset = 3
        /\ Len(frames[c][2].rows) = 0
        /\ Len(frames[c][3].rows) = 2

\* C13: every element of a fetchChunks sequence that is driven makes exactly
\* one page fetch, and every page that arrives becomes exactly one table:
\* the page fetches that returned a page are as many as the tables
\* constructed (zero-row tables of empty pages included) plus the pages
\* whose conversion is the very next step of their element.
C13_OneFetchOneTable ==
    \A c \in Calls :
        IsSequence(c) =>
            /\ cur[c].fetches = Cardinality(InState(c, {"fetched", "done", "raised"}))
            /\ cur[c].errors = Cardinality(InState(c, {"raised"}))
            /\ Len(frames[c]) = Cardinality(InState(c, {"done"}))
            /\ InState(c, {"fetched"}) = {} =>
                 cur[c].fetches - cur[c].errors = Len(frames[c])

C13_Witness ==
    \E c \in Calls :
        /\ IsSequence(c) /\ gen[c] = "exhausted" /\ cur[c].errors = 0
        /\ cur[c].fetches = 4 /\ Len(frames[c]) = 4
        /\ Len(frames[c][4].rows) = 0

\* C14: for each cursor of fetch or iter the schema is retrieved at most
\* once, after execute; no page is fetched before it was retrieved; and every
\* table built from the cursor, zero-row tables included, carries the column
\* names of that schema.
C14_SchemaOncePerCursor ==
    \A c \in Calls :
        /\ cur[c].schemas <= 1
        /\ cur[c].execs <= 1
        /\ cur[c].schemas = 1 => cur[c].execs = 1
        /\ cur[c].fetches > 0 \/ Len(elems[c]) > 0 \/ gen[c] # "none" =>
             cur[c].schemas = 1 /\ columns[c] = ColumnNames(cur[c].schema)
                                /\ cur[c].schema \in SchemaInfos
        /\ \A i \in 1..Len(frames[c]) :
             /\ Len(frames[c][i].cols) = Len(cur[c].schema)
             /\ \A j \in 1..Len(cur[c].schema) :
                  frames[c][i].cols[j] = cur[c].schema[j].columnName

C14_Witness ==
    \E c \in Calls :
        /\ IsSequence(c) /\ cur[c].schemas = 1 /\ Len(cur[c].schema) = 2
        /\ Len(frames[c]) >= 3
        /\ Len(frames[c][1].rows) = 0
        /\ Len(frames[c][3].rows) = 0

\* C19: no remote operation (execute, getSchema, page fetch) is issued on a
\* cursor after cur.close() was called for it; an element obtained before the
\* sequence was finalized does not fetch a page afterwards.
C19_NothingAfterClose ==
    [][\A c \in Calls :
          cur[c].closeCalls > 0 =>
              /\ cur'[c].execs = cur[c].execs
              /\ cur'[c].schemas = cur[c].schemas
              /\ cur'[c].fetches = cur[c].fetches]_vars

\* C15 as stated: the facade's construction has completed once the iterator
\* exists, and each pull drives exactly one fetch-next-table step
C15_EagerOneFetchPerPull ==
    \A c \in Calls :
        Synced(c) =>
            /\ fgen[c] = "created" => cur[c].schemas = 1
            /\ fgen[c] = "yielded" => cur[c].fetches = Len(yielded[c])

\* C15 (amended): calling SyncedHive.iter runs nothing; the first pull drives
\* open, execute and schema to completion before any fetch-next-table step;
\* the steps are driven one at a time, and a pull that hands a table to the
\* caller has driven steps until the last one built a table with rows
C15_LazyConstructionThenSteps ==
    \A c \in Calls :
        Synced(c) =>
            /\ fgen[c] = "created" =>
                  cur[c].state = "none" /\ cur[c].execs = 0 /\ cur[c].schemas = 0
            /\ Len(elems[c]) > 0 =>
                  /\ outcome[c] = "returned"
                  /\ cur[c].execs = 1 /\ cur[c].schemas = 1
            /\ cur[c].fetches > 0 => Len(elems[c]) > 0
            /\ Pending(c) <= 1
            /\ fgen[c] = "yielded" =>
                  /\ Pending(c) = 0
                  /\ yielded[c][Len(yielded[c])] = frames[c][Len(frames[c])]
                  /\ Len(frames[c]) >= Len(yielded[c])
                  /\ cur[c].fetches = Len(frames[c])

\* one pull drove two fetch-next-table steps: the first table had no rows
C15_Witness ==
    \E c \in Calls :
        /\ Synced(c)
        /\ fgen[c] = "yielded"
        /\ Len(yielded[c]) = 1
        /\ cur[c].fetches = 2

MidDrive(c) ==
    /\ c \in facade.calls
    /\ \/ pc[c] \in {"open", "exec", "schema", "fetch", "close", "except", "ret"}
       \/ fgen[c] = "driving"

C16_Serialized ==
    /\ facade.loop = NewFacade.loop
    /\ facade.used \subseteq {facade.loop}
    /\ \A c \in Calls : MidDrive(c) => facade.running = c /\ facade.inside = c
    /\ \A c, d \in Calls : MidDrive(c) /\ MidDrive(d) => c = d
    /\ facade.running # 0 => MidDrive(facade.running)

C16_DrivenToCompletion ==
    [][\A c \in Calls :
          facade.running \notin {0, c} =>
              /\ cur'[c] = cur[c] /\ pc'[c] = pc[c] /\ elems'[c] = elems[c]
              /\ facade'.running \in {0, facade.running}]_vars

\* C16: the facade drives every coroutine on its one event loop, which is
\* never replaced, and one at a time: while one is driven, it is the only one
\* in progress and nothing of another call moves until it has ended
C16_OneLoopOneAtATime == []C16_Serialized /\ C16_DrivenToCompletion

\* an execute is being driven between two steps of a chunk sequence
C16_Witness ==
    /\ facade.running = 2
    /\ pc[2] = "exec"
    /\ fgen[1] = "yielded"
    /\ facade.used = {facade.loop}
C17_Terminates == \A c \in Calls : fgen[c] = "created" ~> fgen[c] = "finished"

C17_EndsExhausted ==
    \A c \in Calls :
        fgen[c] = "finished" /\ outcome[c] = "returned" /\ raised[c] = "none" =>
            /\ gen[c] = "exhausted"
            /\ ~cur[c].hasMore
            /\ cur[c].pos = nrows[c]
            /\ cur[c].fetches <= nrows[c] + MaxEmptyPages + 1

C17_NoFetchAfterEnd ==
    [][\A c \in Calls : fgen[c] = "finished" => cur'[c].fetches = cur[c].fetches]_vars

\* C17: a facade chunk sequence over a finite result that the caller keeps
\* iterating ends; when it ends without an error the page stream is exhausted
\* after boundedly many page fetches, and no page is fetched after the end
C17_IterationTerminates ==
    C17_Terminates /\ []C17_EndsExhausted /\ C17_NoFetchAfterEnd

\* a sequence of several tables was iterated to its end
C17_Witness ==
    \E c \in Calls :
        /\ fgen[c] = "finished"
        /\ gen[c] = "exhausted"
        /\ Len(yielded[c]) >= 2
        /\ cur[c].pos = nrows[c]
\* the rows of the pages of es that were fetched and not yet converted
RECURSIVE HeldRows(_)
HeldRows(es) ==
    IF es = <<>> THEN 0
    ELSE (IF Head(es).st = "fetched" THEN Len(Head(es).page.rows) ELSE 0)
         + HeldRows(Tail(es))

C18_OwnCursorOwnOffset ==
    \A c \in Calls :
        kind[c] = "iter" /\ gen[c] # "none" =>
            /\ ConcatIndex(frames[c]) = Range(0, Len(ConcatRows(frames[c])) - 1)
            /\ local[c].offset = Len(ConcatRows(frames[c]))
            /\ Len(ConcatRows(frames[c])) + HeldRows(elems[c]) = cur[c].pos
            /\ cur[c].pos <= nrows[c]
            /\ cur[c].execs = 1 /\ cur[c].schemas = 1
            /\ cur[c].closeCalls = IF gen[c] \in {"exhausted", "closed"}
                                      /\ (cur[c].fetches > 0 \/ gen[c] = "exhausted"
                                          \/ Len(elems[c]) > 0)
                                   THEN 1 ELSE 0

C18_StepsOfOneSequence ==
    [][\A c, d \in Calls :
          c # d /\ (cur'[c] # cur[c] \/ gen'[c] # gen[c]) =>
              /\ cur'[d] = cur[d] /\ local'[d] = local[d]
              /\ frames'[d] = frames[d] /\ gen'[d] = gen[d]]_vars

\* C18: two chunk sequences of one client, pulled in any interleaving, each
\* use their own cursor and their own running offset: the tables of each are
\* indexed contiguously from 0 and account for the rows its own cursor
\* delivered, a step on one cursor leaves the other sequence as it was, and
\* finalizing a sequence calls close on its own cursor only
C18_SequencesIndependent == []C18_OwnCursorOwnOffset /\ C18_StepsOfOneSequence

\* both sequences have emitted tables with rows, the first was finalized
\* after two tables while the second is still open
C18_Witness ==
    /\ kind[1] = "iter" /\ kind[2] = "iter"
    /\ Len(frames[1]) >= 2 /\ local[1].offset = 2
    /\ local[2].offset = 1
    /\ gen[1] = "closed" /\ gen[2] = "suspended"
    /\ cur[1].closeCalls = 1 /\ cur[2].closeCalls = 0
\* the row labels of a table
Labels(f) == {f.index[i] : i \in 1..Len(f.index)}

\* C20: when the elements of an async chunk sequence are driven in an order
\* other than the one they were produced in, the tables built so far still
\* carry pairwise disjoint index ranges that together cover 0..total-1, each
\* table's own range being contiguous, and the running offset is the total
C20_RangesPartition ==
    \A c \in Calls :
        kind[c] = "iter" =>
            LET fs == frames[c]
                total == Len(ConcatRows(fs))
            IN /\ \A i, j \in 1..Len(fs) : i # j => Labels(fs[i]) \cap Labels(fs[j]) = {}
               /\ UNION {Labels(fs[i]) : i \in 1..Len(fs)} = 0..(total - 1)
               /\ \A i \in 1..Len(fs) :
                     /\ Len(fs[i].index) = Len(fs[i].rows)
                     /\ \A k \in 1..Len(fs[i].index) :
                           fs[i].index[k] = fs[i].index[1] + k - 1
               /\ local[c].offset = total

\* the page fetched second was converted first: the later rows carry the
\* earlier labels
C20_Witness ==
    \E c \in Calls :
        /\ kind[c] = "iter"
        /\ Len(frames[c]) >= 2
        /\ Len(frames[c][1].rows) > 0 /\ Len(frames[c][2].rows) > 0
        /\ frames[c][1].rows[1] > frames[c][2].rows[1]
        /\ frames[c][1].index[1] < frames[c][2].index[1]
====
